---- MODULE Spec2Model ----
(***************************************************************************)
(* A model of TradingClient (src/tradingClient.js): the four in-memory     *)
(* maps, the asynchronous write operations createOrder / cancelOrder, the  *)
(* fetches, and the push handler handleWebSocketMessage, together with the *)
(* environment they talk to (the exchange contract and the push feed).     *)
(*                                                                         *)
(* Every await of the source is a scheduling point: an async method is one *)
(* action per stretch of code between two awaits, and the position of each *)
(* call is kept in its pc field.  The constructor starts initialize, so in *)
(* the initial state the four fetches are in flight; a specification       *)
(* follows the calls that write the maps it is about and leaves the others *)
(* at their awaits.                                                        *)
(*                                                                         *)
(* Specifications: Spec (orders), SpecFair (orders, with the event loop's  *)
(* fairness), SpecReferences (orders, with a caller that writes to the     *)
(* record it was returned), SpecBalances, SpecBootstrap (initialize and    *)
(* the four fetches), SpecPositions (fetchPositions, position_update and   *)
(* updatePositionLeverage), SpecChannel / SpecChannelFair (the push        *)
(* socket), SpecMarkets (fetchMarkets and market_update) and SpecCodes     *)
(* (the code tables).                                                      *)
(*                                                                         *)
(* Quantities.  The chain keeps amounts as integers of 18 decimals; TLC's  *)
(* integers are 32 bits wide, so a raw chain amount is counted here in     *)
(* units of 10^17 wei and a canonical decimal is the pair <<whole, tenth>> *)
(* that ethers.utils.formatUnits prints as "whole.tenth".                  *)
(***************************************************************************)
EXTENDS Integers, Sequences, FiniteSets, TLC

(* ------------------------------ bounds -------------------------------- *)

\* order events (creations, fills, cancels) the exchange has during a run
MaxEvents == 2
\* largest free and largest locked amount of a token in the vault (raw units)
MaxBalance == 1
\* largest raw code (side, order type, status) the exchange may hand back
MaxRawCode == 5
\* balance_update envelopes the feed has sent and the client has not yet received
MaxQueued == 1

(* ------------------------------ inputs -------------------------------- *)

\* market symbols a caller may name; fetchMarkets only ever lists ListedMarkets
Symbols == {"ETH-USDC", "BTC-USDC"}
ListedMarkets == {"ETH-USDC"}
\* order amounts a caller may ask for, as canonical decimals
OrderAmounts == {<<1, 0>>}
\* clientOrderId values a caller passes (or Date.now().toString()): never an id the
\* exchange assigns
ClientOrderIds == {"c1"}
\* raw sizes of one fill on the exchange
FillSizes == {5, 10}
Tokens == {"USDC", "WETH"}
\* values a caller may pass as params.side, params.type and params.timeInForce
SideNames == {"buy", "sell"}
OrderTypeNames == {"market", "limit", "stop", "stopLimit", "trailingStop"}
TimeInForceNames == {"GTC", "IOC", "FOK", "GTD"}
\* raw codes a contract may return
RawCodes == 0 .. MaxRawCode
\* values a caller may write into the status of a record it was handed
CallerStatuses == {"archived"}
\* the data of the market_update messages the feed may send: a symbol, listed or
\* not, with a price, or a price alone
MarketPrices == {<<1, 0>>, <<2, 0>>}
MarketUpdates ==
    {[symbol |-> sym, price |-> p] : sym \in Symbols, p \in MarketPrices}
        \cup {[price |-> p] : p \in MarketPrices}
\* the data of the position_update messages the feed may send: a change of a position
\* the margin contract may hold, and a position the client has not fetched
PositionUpdates ==
    {[id |-> "p1", size |-> <<2, 0>>, side |-> "long"], [id |-> "p2", size |-> <<1, 0>>]}
\* position ids and leverages (as <<whole, hundredths>>) a caller passes to
\* updatePositionLeverage
PositionIds == {"p1", "p2"}
NewLeverages == {<<5, 0>>}

(* --------------------------- pure helpers ----------------------------- *)

EVMNetworks == {"ethereum", "arbitrum", "optimism", "bnb"}

\* ethers.utils.formatUnits(raw, 18) in the model's unit
FormatUnits(raw) == <<raw \div 10, raw % 10>>

\* ethers.utils.parseUnits(dec, 18) in the model's unit
ParseUnits(dec) == dec[1] * 10 + dec[2]

\* numeric value of a canonical decimal, for comparisons
DecValue(dec) == dec[1] * 10 + dec[2]

getOrderStatusName(statusId) ==
    LET statusNames == <<"open", "filled", "canceled", "expired", "rejected">>
    IN  IF statusId + 1 \in DOMAIN statusNames THEN statusNames[statusId + 1]
        ELSE "unknown"

\* typeMap[typeName] || 1: a name the table lacks, and the code 0, give 1
getOrderTypeId(typeName) ==
    LET typeMap == [market |-> 0, limit |-> 1, stop |-> 2, stopLimit |-> 3,
                    trailingStop |-> 4]
    IN  IF typeName \in DOMAIN typeMap /\ typeMap[typeName] # 0
        THEN typeMap[typeName] ELSE 1

getOrderTypeName(typeId) ==
    LET typeNames == <<"market", "limit", "stop", "stopLimit", "trailingStop">>
    IN  IF typeId + 1 \in DOMAIN typeNames THEN typeNames[typeId + 1]
        ELSE "unknown"

\* map[name] || 0
getTimeInForceId(name) ==
    LET map == [GTC |-> 0, IOC |-> 1, FOK |-> 2, GTD |-> 3]
    IN  IF name \in DOMAIN map /\ map[name] # 0 THEN map[name] ELSE 0

\* side === 'buy' ? 0 : 1 (line 377)
SideId(side) == IF side = "buy" THEN 0 ELSE 1

\* order.side === 0 ? 'buy' : 'sell' (line 317)
OrderSideName(side) == IF side = 0 THEN "buy" ELSE "sell"

\* position.side === 0 ? 'long' : 'short' (line 276)
PositionSideName(side) == IF side = 0 THEN "long" ELSE "short"

\* { ...old, ...new }: every field of new, and the fields of old that new lacks
Spread(old, new) ==
    [f \in (DOMAIN old) \cup (DOMAIN new) |->
        IF f \in DOMAIN new THEN new[f] ELSE old[f]]

\* object.field: a field the object lacks reads as undefined
Property(object, field) ==
    IF field \in DOMAIN object THEN object[field] ELSE "undefined"

\* map.get(key) read for a spread: undefined spreads as no fields
GetOrEmpty(map, key) == IF key \in DOMAIN map THEN map[key] ELSE << >>

\* map.set(key, value)
MapSet(map, key, value) ==
    [k \in (DOMAIN map) \cup {key} |-> IF k = key THEN value ELSE map[k]]

(* ------------------------------- state -------------------------------- *)

VARIABLES
    network,     \* this.network
    wallet,      \* this.wallet is bound (TRUE) or undefined (FALSE)
    markets,     \* this.markets:   symbol   -> market record
    orders,      \* this.orders:    order id -> order record
    balances,    \* this.balances:  token    -> balance record
    positions,   \* this.positions: position id -> position record
    chain,       \* the exchange contract's orders: id -> [status, filled, amount] (raw)
    clock,       \* number of order events the exchange has had: the sequence marker
    wire,        \* envelopes emitted by the feed and not yet received
    co,          \* the createOrder call:     its position and locals
    cn,          \* the cancelOrder call:     its position and locals
    fo,          \* the fetchOpenOrders call: its position and locals
    top,         \* per order key, the update of highest sequence marker applied so far
    vault,       \* the vault contract's balances: token -> [free, locked, total] (raw)
    fb,          \* the fetchBalances call: its position, the reads not yet answered,
                 \* the answers on their way, the tokens whose record the call has set,
                 \* and (late) the reads and answers left over from earlier calls
    cx,          \* the codes last converted: what was read and what was made of it
    ws,          \* this.ws: the socket's readyState and the envelopes sent on it
    timers,      \* reconnect timers set by setTimeout and not yet fired
    boot,        \* the initialize call:     its position
    fm,          \* the fetchMarkets call:   its position
    fp,          \* the fetchPositions call: its position and locals
    margin,      \* the margin contract's positions: id -> [side, size, leverage] (raw)
    held,        \* the record the last createOrder call returned, as the caller holds it
    orphans,     \* sockets not closed that this.ws no longer refers to
    ul           \* the updatePositionLeverage call: its position and locals

vars == <<network, wallet, markets, orders, balances, positions, chain, clock,
          wire, co, cn, fo, top, vault, fb, cx, ws, timers, boot, fm, fp, margin,
          held, orphans, ul>>

\* the bootstrap's own variables
bootVars == <<boot, fm, fp, margin>>

IsEVM == network \in EVMNetworks

\* event.args.orderId.toString() for the n-th order the exchange has created
ChainOrderId(n) == ToString(n)

\* a call that is not running is "idle" (never made), "done" (returned) or "failed"
\* (threw); one call of each method is in flight at a time.  A call's record keeps
\* the locals its later steps read and what the claims say about its outcome; the
\* other locals end with the call
Over == {"idle", "done", "failed"}

IdleCreate == [pc |-> "idle", amount |-> <<0, 0>>, clientOrderId |-> "",
               marketKnown |-> FALSE, chainId |-> "", seq |-> 0, orderId |-> "",
               err |-> "", reason |-> ""]
IdleCancel == [pc |-> "idle", orderId |-> "", wasCanceled |-> FALSE, sent |-> FALSE,
               seq |-> 0, err |-> ""]
IdleFetch == [pc |-> "idle", snap |-> << >>, seq |-> 0]
\* no getBalance of a call that has returned is outstanding
NoneLate == [pending |-> {}, answers |-> << >>]
IdleFetchBalances == [pc |-> "idle", pending |-> {}, answers |-> << >>, applied |-> {},
                      late |-> NoneLate]
IdleCall == [pc |-> "idle"]
IdleLeverage == [pc |-> "idle", positionId |-> "", leverage |-> <<0, 0>>, err |-> ""]
NoConversion == [op |-> "none"]
\* the caller holds no record: key is the key the record was stored under, live says
\* whether the map still holds that very object, record is the object's contents
NoneHeld == [key |-> "", live |-> FALSE, record |-> << >>]
\* new WebSocket(url): the connection attempt has begun and nothing was sent
NewSocket == [readyState |-> "CONNECTING", sent |-> << >>]

\* constructor line 67: initialize has run the four fetches up to their first await
\* and awaits Promise.all of them; fetchMarkets has sent its request, and each of the
\* other three has returned at once without a wallet and on solana, and awaits
\* getAddress on an EVM network
Initialize ==
    /\ boot = [pc |-> "awaiting"]
    /\ fm = [pc |-> "requesting"]
    /\ fb = [IdleFetchBalances EXCEPT !.pc = IF wallet /\ IsEVM THEN "tokens" ELSE "done"]
    /\ fp = [IdleFetch EXCEPT !.pc = IF wallet /\ IsEVM THEN "reading" ELSE "done"]
    /\ fo = [IdleFetch EXCEPT !.pc = IF wallet /\ IsEVM THEN "reading" ELSE "done"]

\* the constructor has returned: the maps are empty; initializeProviders reads
\* this.wallet.provider on an EVM network, so a client without a wallet exists only
\* on solana, and only ethereum and arbitrum have an entry in supportedNetworks;
\* connectWebsocket has created the first socket and initialize is under way
InitClient ==
    /\ network \in {"arbitrum", "solana"}
    /\ wallet \in BOOLEAN
    /\ (network \in EVMNetworks => wallet)
    /\ markets = << >>
    /\ orders = << >>
    /\ balances = << >>
    /\ positions = << >>
    /\ wire = {}
    /\ co = IdleCreate
    /\ cn = IdleCancel
    /\ top = << >>
    /\ cx = NoConversion
    /\ ws = NewSocket
    /\ timers = 0
    /\ Initialize
    /\ held = NoneHeld
    /\ orphans = 0
    /\ ul = IdleLeverage

\* a client whose user has nothing on the contracts yet
Init ==
    /\ InitClient
    /\ chain = << >>
    /\ clock = 0
    /\ vault = [t \in Tokens |-> [free |-> 0, locked |-> 0, total |-> 0]]
    /\ margin = << >>

(* --------------------- the sequence rule (bookkeeping) ----------------- *)

\* top is a history variable: the code keeps no sequence marker, so the marker of
\* an update is the exchange's event count when the update was produced (the event
\* an order_update reports, the mining of the transaction a call confirms, the
\* moment a fetch was answered).  No action reads top.

\* update a beats update b under the sequence rule: a higher marker, and on a tie
\* anything but a push against a confirmation-sourced update
Beats(a, b) ==
    \/ a.seq > b.seq
    \/ a.seq = b.seq /\ ~(a.src = "push" /\ b.src # "push")

\* top after update u was applied to key
Noted(key, u) ==
    IF key \in DOMAIN top /\ ~Beats(u, top[key]) THEN top ELSE MapSet(top, key, u)

(* ------------------------- the exchange and its feed ------------------- *)

\* the order_update envelope the feed emits for order id in exchange state ch
OrderUpdate(ch, id, seq) ==
    [type |-> "order_update", seq |-> seq,
     data |-> [id |-> id, status |-> getOrderStatusName(ch[id].status),
               filled |-> FormatUnits(ch[id].filled)]]

\* the exchange matches part of an open order
ChainFill(id, size) ==
    /\ clock < MaxEvents
    /\ id \in DOMAIN chain
    /\ chain[id].status = 0
    /\ chain[id].filled + size <= chain[id].amount
    /\ LET f == chain[id].filled + size
           ch == [chain EXCEPT ![id].filled = f,
                               ![id].status = IF f = chain[id].amount THEN 1 ELSE 0]
       IN  /\ chain' = ch
           /\ clock' = clock + 1
           /\ wire' = wire \cup {OrderUpdate(ch, id, clock + 1)}
    /\ UNCHANGED <<ul, orphans, held, bootVars, cx, ws, timers, network, wallet, markets, orders, balances, positions, co, cn, fo,
                   top, vault, fb>>

(* ---------------------------- store updates --------------------------- *)

\* held after orders.set(key, a fresh object) for every key of keys: the object the
\* caller holds is no longer the one in the map
Replaced(keys) ==
    IF held.live /\ held.key \in keys THEN [held EXCEPT !.live = FALSE] ELSE held

updateOrder(orderData) ==
    MapSet(orders, orderData.id, Spread(GetOrEmpty(orders, orderData.id), orderData))

\* ws.on('message') -> handleWebSocketMessage, case 'order_update'
HandleOrderUpdate(m) ==
    /\ m \in wire
    /\ m.type = "order_update"
    /\ wire' = wire \ {m}
    /\ orders' = updateOrder(m.data)
    /\ top' = Noted(m.data.id, [seq |-> m.seq, src |-> "push",
                                 status |-> m.data.status, filled |-> m.data.filled])
    /\ held' = Replaced({m.data.id})
    /\ UNCHANGED <<ul, orphans, bootVars, cx, ws, timers, network, wallet, markets, balances, positions, chain, clock, co, cn,
                   fo, vault, fb>>

(* ------------------------------ fetchMarkets --------------------------- *)

\* a caller calls fetchMarkets: the request is sent
FetchMarketsCall ==
    /\ fm.pc \in Over
    /\ fm' = [fm EXCEPT !.pc = "requesting"]
    /\ UNCHANGED <<ul, orphans, held, cx, ws, timers, network, wallet, markets, orders, balances, positions,
                   chain, clock, wire, co, cn, fo, top, vault, fb, boot, fp, margin>>

\* FetchMarketsRespond with the map rebuilt from the response instead of added to
FetchMarketsRespond_Replaces ==
    /\ fm.pc = "requesting"
    /\ fm' = [fm EXCEPT !.pc = "done"]
    /\ markets' = [sym \in ListedMarkets |->
                     [symbol |-> sym, address |-> "addr-" \o sym]]
    /\ UNCHANGED <<ul, orphans, held, cx, ws, timers, network, wallet, orders, balances, positions, chain,
                   clock, wire, co, cn, fo, top, vault, fb, boot, fp, margin>>

\* the markets request is answered: every listed market is set under its symbol
FetchMarketsRespond ==
    /\ fm.pc = "requesting"
    /\ fm' = [fm EXCEPT !.pc = "done"]
    /\ markets' = [sym \in (DOMAIN markets) \cup ListedMarkets |->
                     IF sym \in ListedMarkets
                     THEN [symbol |-> sym, address |-> "addr-" \o sym]
                     ELSE markets[sym]]
    /\ UNCHANGED <<ul, orphans, held, cx, ws, timers, network, wallet, orders, balances, positions, chain,
                   clock, wire, co, cn, fo, top, vault, fb, boot, fp, margin>>

\* fetch or response.json rejects: the catch returns []
FetchMarketsFail ==
    /\ fm.pc = "requesting"
    /\ fm' = [fm EXCEPT !.pc = "failed"]
    /\ UNCHANGED <<ul, orphans, held, cx, ws, timers, network, wallet, markets, orders, balances, positions,
                   chain, clock, wire, co, cn, fo, top, vault, fb, boot, fp, margin>>

(* ------------------------------ createOrder ---------------------------- *)

\* NewOrder with the status of the sentinel id instead of 'open'
NewOrder_StatusPending(orderId, amount) ==
    [id |-> orderId, amount |-> amount, filled |-> <<0, 0>>, status |-> "pending"]

\* the record createOrder builds once the receipt is in (lines 406-417)
NewOrder(orderId, amount) ==
    [id |-> orderId, amount |-> amount, filled |-> <<0, 0>>, status |-> "open"]

\* createOrder up to its first await: the wallet check, the market lookup and the
\* call of exchangeContract.createOrder; on solana the placeholder returns a fresh
\* object at once; a record an earlier call returned stays with the caller
CreateOrderCall(market, amount, clientOrderId) ==
    /\ co.pc \in Over
    /\ LET call == [IdleCreate EXCEPT !.amount = amount,
                                      !.clientOrderId = clientOrderId,
                                      !.marketKnown = market \in DOMAIN markets]
       IN  co' = IF ~wallet
                 THEN [call EXCEPT !.pc = "failed", !.err = "WalletNotConnected"]
                 ELSE IF IsEVM /\ market \notin DOMAIN markets
                 THEN [call EXCEPT !.pc = "failed", !.err = "OrderSubmissionFailed",
                                   !.reason = "Market not found"]
                 ELSE IF IsEVM
                 THEN [call EXCEPT !.pc = "submitted"]
                 ELSE [call EXCEPT !.pc = "done", !.orderId = "solana-now"]
    /\ held' = IF wallet /\ ~IsEVM
               THEN [key |-> "solana-now", live |-> FALSE,
                     record |-> [id |-> "solana-now", amount |-> amount,
                                 status |-> "open"]]
               ELSE held
    /\ UNCHANGED <<ul, orphans, bootVars, cx, ws, timers, network, wallet, markets, orders, balances, positions, chain, clock,
                   wire, fo, cn, top, vault, fb>>

\* exchangeContract.createOrder or tx.wait rejects: nothing reached the exchange
CreateOrderReject ==
    /\ co.pc = "submitted"
    /\ co' = [co EXCEPT !.pc = "failed", !.err = "OrderSubmissionFailed",
                        !.reason = "transaction failed"]
    /\ UNCHANGED <<ul, orphans, held, bootVars, cx, ws, timers, network, wallet, markets, orders, balances, positions, chain, clock,
                   wire, fo, cn, top, vault, fb>>

\* the transaction is mined and tx.wait resolves: the exchange holds a new open order
\* and the feed emits its first order_update; the call goes on to the receipt lookup
CreateOrderMined ==
    /\ clock < MaxEvents
    /\ co.pc = "submitted"
    /\ LET id == ChainOrderId(Cardinality(DOMAIN chain) + 1)
           ch == MapSet(chain, id, [status |-> 0, filled |-> 0,
                                    amount |-> ParseUnits(co.amount)])
       IN  /\ chain' = ch
           /\ clock' = clock + 1
           /\ wire' = wire \cup {OrderUpdate(ch, id, clock + 1)}
           /\ co' = [co EXCEPT !.pc = "receipt", !.chainId = id, !.seq = clock + 1]
    /\ UNCHANGED <<ul, orphans, held, bootVars, cx, ws, timers, network, wallet, markets, orders, balances, positions, fo, cn, top,
                   vault, fb>>

\* CreateOrderReceiptFail with the order cached before the receipt lookup is awaited,
\* under the clientOrderId, and left there when the lookup rejects
CreateOrderReceiptFail_LeavesRecord ==
    /\ co.pc = "receipt"
    /\ co' = [co EXCEPT !.pc = "failed", !.err = "OrderSubmissionFailed",
                        !.reason = "receipt lookup failed"]
    /\ orders' = MapSet(orders, co.clientOrderId,
                        [id |-> co.clientOrderId, amount |-> co.amount,
                         filled |-> <<0, 0>>, status |-> "open"])
    /\ UNCHANGED <<ul, orphans, held, bootVars, cx, ws, timers, network, wallet, markets, balances, positions, chain, clock, wire,
                   fo, cn, top, vault, fb>>

\* provider.getTransactionReceipt rejects: the order is on the exchange all the same
CreateOrderReceiptFail ==
    /\ co.pc = "receipt"
    /\ co' = [co EXCEPT !.pc = "failed", !.err = "OrderSubmissionFailed",
                        !.reason = "receipt lookup failed", !.seq = 0]
    /\ UNCHANGED <<ul, orphans, held, bootVars, cx, ws, timers, network, wallet, markets, orders, balances, positions, chain, clock,
                   wire, fo, cn, top, vault, fb>>

\* the key createOrder stores the order under (line 403)
StoredOrderId(extracted, chainId) == IF extracted THEN chainId ELSE "pending"

\* the receipt is in: the order id is read from the OrderCreated event when one
\* parses (extracted) and is 'pending' otherwise; the order is set under it
CreateOrderReturn(extracted) ==
    /\ co.pc = "receipt"
    /\ LET orderId == StoredOrderId(extracted, co.chainId)
           newOrder == NewOrder(orderId, co.amount)
       IN  /\ orders' = MapSet(orders, orderId, newOrder)
           /\ top' = Noted(orderId, [seq |-> co.seq, src |-> "confirm",
                                     status |-> newOrder.status,
                                     filled |-> newOrder.filled])
           /\ co' = [co EXCEPT !.pc = "done", !.orderId = orderId]
    /\ held' = [key |-> StoredOrderId(extracted, co.chainId), live |-> TRUE,
                record |-> NewOrder(StoredOrderId(extracted, co.chainId), co.amount)]
    /\ UNCHANGED <<ul, orphans, bootVars, cx, ws, timers, network, wallet, markets, balances, positions, chain, clock, wire,
                   fo, cn, vault, fb>>

(* ------------------------------ cancelOrder ---------------------------- *)

\* order ids a caller can name: the keys of its map and the ids on the exchange
KnownOrderIds == (DOMAIN orders) \cup (DOMAIN chain)

\* cancelOrder up to its first await: the wallet check and the call of
\* exchangeContract.cancelOrder; on solana the placeholder returns success at once
CancelOrderCall(orderId) ==
    /\ cn.pc \in Over
    /\ orderId \in KnownOrderIds
    /\ LET call == [IdleCancel EXCEPT !.orderId = orderId,
                                      !.wasCanceled = /\ orderId \in DOMAIN orders
                                                      /\ orders[orderId].status = "canceled"]
       IN  cn' = IF ~wallet
                 THEN [call EXCEPT !.pc = "failed", !.err = "WalletNotConnected",
                                   !.orderId = ""]
                 ELSE IF IsEVM
                 THEN [call EXCEPT !.pc = "submitted", !.sent = TRUE]
                 ELSE [call EXCEPT !.pc = "done", !.orderId = ""]
    /\ UNCHANGED <<ul, orphans, held, bootVars, cx, ws, timers, network, wallet, markets, orders, balances, positions, chain, clock,
                   wire, co, fo, top, vault, fb>>

\* exchangeContract.cancelOrder or tx.wait rejects (the exchange reverts a cancel of
\* an order that is not open, and any transaction can fail in transport)
CancelOrderReject ==
    /\ cn.pc = "submitted"
    /\ cn' = [IdleCancel EXCEPT !.pc = "failed", !.err = "CancelFailed"]
    /\ UNCHANGED <<ul, orphans, held, bootVars, cx, ws, timers, network, wallet, markets, orders, balances, positions, chain, clock,
                   wire, co, fo, top, vault, fb>>

\* the cancel is mined: the exchange's order goes from open to canceled and the feed
\* emits an order_update
CancelOrderMined ==
    /\ clock < MaxEvents
    /\ cn.pc = "submitted"
    /\ cn.orderId \in DOMAIN chain
    /\ chain[cn.orderId].status = 0
    /\ LET id == cn.orderId
           ch == [chain EXCEPT ![id].status = 2]
       IN  /\ chain' = ch
           /\ clock' = clock + 1
           /\ wire' = wire \cup {OrderUpdate(ch, id, clock + 1)}
           /\ cn' = [cn EXCEPT !.pc = "mined", !.seq = clock + 1]
    /\ UNCHANGED <<ul, orphans, held, bootVars, cx, ws, timers, network, wallet, markets, orders, balances, positions, co, fo, top,
                   vault, fb>>

\* tx.wait has resolved: the cached order, when there is one, is marked canceled
CancelOrderReturn ==
    /\ cn.pc = "mined"
    /\ LET id == cn.orderId
       IN  IF id \in DOMAIN orders
           THEN /\ orders' = [orders EXCEPT ![id].status = "canceled"]
                /\ top' = Noted(id, [seq |-> cn.seq, src |-> "confirm",
                                     status |-> "canceled",
                                     filled |-> orders[id].filled])
           ELSE UNCHANGED <<orders, top>>
    /\ cn' = [IdleCancel EXCEPT !.pc = "done"]
    /\ held' = IF held.live /\ held.key = cn.orderId
               THEN [held EXCEPT !.record.status = "canceled"] ELSE held
    /\ UNCHANGED <<ul, orphans, bootVars, cx, ws, timers, network, wallet, markets, balances, positions, chain, clock, wire,
                   co, fo, vault, fb>>

(* ---------------------------- fetchOpenOrders -------------------------- *)

\* the record fetchOpenOrders builds from one order of getUserOrders (lines 314-324)
FetchedOrder(id, raw) ==
    [id |-> id, amount |-> FormatUnits(raw.amount), filled |-> FormatUnits(raw.filled),
     status |-> getOrderStatusName(raw.status)]

\* fetchOpenOrders up to its awaits: without a wallet, and on solana, it returns
\* at once; on an EVM network it asks the exchange for the user's orders
FetchOpenOrdersCall ==
    /\ fo.pc \in Over
    /\ fo' = [IdleFetch EXCEPT !.pc = IF wallet /\ IsEVM THEN "reading" ELSE "done"]
    /\ fo' # fo
    /\ UNCHANGED <<ul, orphans, held, bootVars, cx, ws, timers, network, wallet, markets, orders, balances, positions, chain, clock,
                   wire, co, cn, top, vault, fb>>

\* the node answers getUserOrders with the exchange's orders as they are now
FetchOpenOrdersRead ==
    /\ fo.pc = "reading"
    /\ fo' = [fo EXCEPT !.pc = "resolving", !.snap = chain, !.seq = clock]
    /\ UNCHANGED <<ul, orphans, held, bootVars, cx, ws, timers, network, wallet, markets, orders, balances, positions, chain, clock,
                   wire, co, cn, top, vault, fb>>

\* getAddress or getUserOrders rejects: the catch returns []
FetchOpenOrdersFail ==
    /\ fo.pc = "reading"
    /\ fo' = [fo EXCEPT !.pc = "failed"]
    /\ UNCHANGED <<ul, orphans, held, bootVars, cx, ws, timers, network, wallet, markets, orders, balances, positions, chain, clock,
                   wire, co, cn, top, vault, fb>>

\* the answer arrives: every order in it is set under its id, replacing the record
FetchOpenOrdersApply ==
    /\ fo.pc = "resolving"
    /\ LET snap == fo.snap
       IN  /\ orders' = [id \in (DOMAIN orders) \cup (DOMAIN snap) |->
                           IF id \in DOMAIN snap THEN FetchedOrder(id, snap[id])
                           ELSE orders[id]]
           /\ top' = [id \in (DOMAIN top) \cup (DOMAIN snap) |->
                        IF id \in DOMAIN snap
                        THEN LET u == [seq |-> fo.seq, src |-> "fetch",
                                       status |-> FetchedOrder(id, snap[id]).status,
                                       filled |-> FetchedOrder(id, snap[id]).filled]
                             IN  IF id \in DOMAIN top /\ ~Beats(u, top[id])
                                 THEN top[id] ELSE u
                        ELSE top[id]]
    /\ fo' = [fo EXCEPT !.pc = "done", !.snap = << >>, !.seq = 0]
    /\ held' = Replaced(DOMAIN fo.snap)
    /\ UNCHANGED <<ul, orphans, bootVars, cx, ws, timers, network, wallet, markets, balances, positions, chain, clock, wire,
                   co, cn, vault, fb>>

(* --------------------------- the order system -------------------------- *)

Next ==
    \/ FetchMarketsRespond
    \/ FetchMarketsFail
    \/ \E market \in Symbols, amount \in OrderAmounts, id \in ClientOrderIds :
          CreateOrderCall(market, amount, id)
    \/ CreateOrderReject
    \/ CreateOrderMined
    \/ CreateOrderReceiptFail
    \/ \E extracted \in BOOLEAN : CreateOrderReturn(extracted)
    \/ \E id \in KnownOrderIds : CancelOrderCall(id)
    \/ CancelOrderReject
    \/ CancelOrderMined
    \/ CancelOrderReturn
    \/ FetchOpenOrdersCall
    \/ FetchOpenOrdersRead
    \/ FetchOpenOrdersFail
    \/ FetchOpenOrdersApply
    \/ \E id \in DOMAIN chain, size \in FillSizes : ChainFill(id, size)
    \/ \E m \in wire : HandleOrderUpdate(m)

Spec == Init /\ [][Next]_vars

\* the event loop runs a continuation once the promise it awaits has settled and
\* delivers a message once it has been received; whether and when the chain or the
\* node answers is not the client's to decide, so those steps carry no fairness
SpecFair ==
    /\ Spec
    /\ WF_vars(CancelOrderReturn)
    /\ WF_vars(FetchOpenOrdersApply)
    /\ WF_vars(\E m \in wire : HandleOrderUpdate(m))

(* ------------------------- the caller's references --------------------- *)

\* the caller assigns to the status of the record createOrder returned to it
\* (line 420 returns the object line 419 stored): while the map still holds that
\* object, the assignment is seen through the map
CallerMutates(status) ==
    /\ held.key # ""
    /\ held.record.status # status
    /\ held' = [held EXCEPT !.record.status = status]
    /\ orders' = IF held.live THEN [orders EXCEPT ![held.key].status = status]
                 ELSE orders
    /\ UNCHANGED <<ul, orphans, bootVars, cx, ws, timers, network, wallet, markets, balances,
                   positions, chain, clock, wire, co, cn, fo, top, vault, fb>>

NextReferences ==
    \/ Next
    \/ \E status \in CallerStatuses : CallerMutates(status)

SpecReferences == Init /\ [][NextReferences]_vars

(* ------------------------------- balances ------------------------------ *)

\* the vault's balance of a token changes (deposit, withdrawal, lock, release);
\* the contract keeps total = free + locked
VaultChange(t, free, locked) ==
    /\ vault[t] # [free |-> free, locked |-> locked, total |-> free + locked]
    /\ vault' = [vault EXCEPT ![t] = [free |-> free, locked |-> locked,
                                      total |-> free + locked]]
    /\ UNCHANGED <<ul, orphans, held, bootVars, cx, ws, timers, network, wallet, markets, orders, balances, positions, chain, clock,
                   wire, co, cn, fo, top, fb>>

\* the record fetchBalances builds from one getBalance answer (lines 238-243)
FetchedBalance(t, raw) ==
    [token |-> t, free |-> FormatUnits(raw.free), locked |-> FormatUnits(raw.locked),
     total |-> FormatUnits(raw.total)]

\* the tokens a fetchBalances call has a getBalance outstanding for, answered or not
Outstanding(reads) == reads.pending \cup DOMAIN reads.answers

\* a caller calls fetchBalances: without a wallet, and on solana, it returns at once.
\* The reads a failed call left outstanding stay outstanding beside the new call's;
\* one left-over read per token is followed
FetchBalancesCall ==
    /\ fb.pc \in Over
    /\ Outstanding(fb) \cap Outstanding(fb.late) = {}
    /\ fb' = [IdleFetchBalances EXCEPT
                 !.pc = IF wallet /\ IsEVM THEN "tokens" ELSE "done",
                 !.late = [pending |-> fb.late.pending \cup fb.pending,
                           answers |-> [t \in DOMAIN fb.late.answers \cup DOMAIN fb.answers |->
                                          IF t \in DOMAIN fb.answers THEN fb.answers[t]
                                          ELSE fb.late.answers[t]]]]
    /\ fb' # fb
    /\ UNCHANGED <<ul, orphans, held, bootVars, cx, ws, timers, network, wallet, markets, orders,
                   balances, positions, chain, clock, wire, co, cn, fo, top, vault>>

\* getUserTokens resolves: one getBalance per token is started (Promise.all)
FetchBalancesTokens ==
    /\ fb.pc = "tokens"
    /\ fb' = [fb EXCEPT !.pc = "balances", !.pending = Tokens]
    /\ UNCHANGED <<ul, orphans, held, bootVars, cx, ws, timers, network, wallet, markets, orders,
                   balances, positions, chain, clock, wire, co, cn, fo, top, vault>>

\* the node answers one getBalance with the vault's balance as it is now
FetchBalanceRead(t) ==
    /\ t \in fb.pending
    /\ fb' = [fb EXCEPT !.pending = fb.pending \ {t},
                        !.answers = MapSet(fb.answers, t, vault[t])]
    /\ UNCHANGED <<ul, orphans, held, bootVars, cx, ws, timers, network, wallet, markets, orders,
                   balances, positions, chain, clock, wire, co, cn, fo, top, vault>>

\* the answer of one getBalance arrives and its callback sets the token's record
\* from it; a callback still runs when Promise.all has already rejected
FetchBalanceArrive(t) ==
    /\ t \in DOMAIN fb.answers
    /\ balances' = MapSet(balances, t, FetchedBalance(t, fb.answers[t]))
    /\ fb' = [fb EXCEPT !.answers = [u \in (DOMAIN fb.answers) \ {t} |-> fb.answers[u]],
                        !.applied = fb.applied \cup {t}]
    /\ UNCHANGED <<ul, orphans, held, bootVars, cx, ws, timers, network, wallet, markets, orders,
                   positions, chain, clock, wire, co, cn, fo, top, vault>>

\* getAddress, getUserTokens or one getBalance rejects: the catch returns []; a
\* getBalance that rejects after Promise.all has rejected changes nothing
FetchBalancesFail(t) ==
    /\ \/ fb.pc = "tokens" /\ fb.pending = {}
       \/ fb.pc \in {"balances", "failed"} /\ t \in fb.pending
    /\ fb' = [fb EXCEPT !.pc = "failed", !.pending = fb.pending \ {t}]
    /\ UNCHANGED <<ul, orphans, held, bootVars, cx, ws, timers, network, wallet, markets, orders,
                   balances, positions, chain, clock, wire, co, cn, fo, top, vault>>

\* a getBalance of an earlier call, still outstanding, is answered by the node
LateBalanceRead(t) ==
    /\ t \in fb.late.pending
    /\ fb' = [fb EXCEPT !.late.pending = fb.late.pending \ {t},
                        !.late.answers = MapSet(fb.late.answers, t, vault[t])]
    /\ UNCHANGED <<ul, orphans, held, bootVars, cx, ws, timers, network, wallet, markets, orders,
                   balances, positions, chain, clock, wire, co, cn, fo, top, vault>>

\* the answer to a getBalance of an earlier call arrives: its callback sets the
\* token's record
LateBalanceArrive(t) ==
    /\ t \in DOMAIN fb.late.answers
    /\ balances' = MapSet(balances, t, FetchedBalance(t, fb.late.answers[t]))
    /\ fb' = [fb EXCEPT !.late.answers =
                            [u \in (DOMAIN fb.late.answers) \ {t} |-> fb.late.answers[u]]]
    /\ UNCHANGED <<ul, orphans, held, bootVars, cx, ws, timers, network, wallet, markets, orders,
                   positions, chain, clock, wire, co, cn, fo, top, vault>>

\* a getBalance of an earlier call rejects: nothing is written
LateBalanceFail(t) ==
    /\ t \in fb.late.pending
    /\ fb' = [fb EXCEPT !.late.pending = fb.late.pending \ {t}]
    /\ UNCHANGED <<ul, orphans, held, bootVars, cx, ws, timers, network, wallet, markets, orders,
                   balances, positions, chain, clock, wire, co, cn, fo, top, vault>>

\* every getBalance has resolved and every callback has run: the values of the map
\* are returned
FetchBalancesReturn ==
    /\ fb.pc = "balances"
    /\ fb.pending = {}
    /\ fb.answers = << >>
    /\ fb' = [fb EXCEPT !.pc = "done"]
    /\ UNCHANGED <<ul, orphans, held, bootVars, cx, ws, timers, network, wallet, markets, orders,
                   balances, positions, chain, clock, wire, co, cn, fo, top, vault>>

updateBalance(balanceData) ==
    MapSet(balances, balanceData.token,
           Spread(GetOrEmpty(balances, balanceData.token), balanceData))

BalanceFields == {"free", "locked", "total"}
\* the fields a balance_update may carry: all three, or free alone
BalanceFieldSets == {BalanceFields, {"free"}}

\* the balance_update envelope the feed sends for token t: the token and the fields
\* named, with the vault's values at the time it is sent
BalanceUpdate(t, fields) ==
    [type |-> "balance_update",
     data |-> [f \in fields \cup {"token"} |->
                 IF f = "token" THEN t ELSE FormatUnits(vault[t][f])]]

\* the balance_update envelopes on their way to the client
QueuedBalanceUpdates == {m \in wire : m.type = "balance_update"}

\* the feed sends a balance_update
EmitBalanceUpdate(t, fields) ==
    /\ Cardinality(QueuedBalanceUpdates) < MaxQueued
    /\ BalanceUpdate(t, fields) \notin wire
    /\ wire' = wire \cup {BalanceUpdate(t, fields)}
    /\ UNCHANGED <<ul, orphans, held, bootVars, cx, ws, timers, network, wallet, markets, orders,
                   balances, positions, chain, clock, co, cn, fo, top, vault, fb>>

\* ws.on('message') -> handleWebSocketMessage, case 'balance_update': the data of
\* the envelope is merged as it is
HandleBalanceUpdate(m) ==
    /\ m \in wire
    /\ m.type = "balance_update"
    /\ wire' = wire \ {m}
    /\ balances' = updateBalance(m.data)
    /\ UNCHANGED <<ul, orphans, held, bootVars, cx, ws, timers, network, wallet, markets, orders,
                   positions, chain, clock, co, cn, fo, top, vault, fb>>

\* the token whose vault balance moves during a run
MovingTokens == {"USDC"}

NextBalances ==
    \/ \E t \in MovingTokens, free \in 0 .. MaxBalance, locked \in 0 .. MaxBalance :
          VaultChange(t, free, locked)
    \/ FetchBalancesCall
    \/ FetchBalancesTokens
    \/ \E t \in Tokens : FetchBalanceRead(t)
    \/ \E t \in Tokens : FetchBalanceArrive(t)
    \/ \E t \in Tokens : FetchBalancesFail(t)
    \/ FetchBalancesReturn
    \/ \E t \in Tokens : LateBalanceRead(t)
    \/ \E t \in Tokens : LateBalanceArrive(t)
    \/ \E t \in Tokens : LateBalanceFail(t)
    \/ \E t \in Tokens, fields \in BalanceFieldSets : EmitBalanceUpdate(t, fields)
    \/ \E m \in wire : HandleBalanceUpdate(m)

SpecBalances == Init /\ [][NextBalances]_vars

(* ------------------------------ the bootstrap ------------------------- *)

\* what the user had on the contracts before this client was constructed
PriorOrders == {<< >>, MapSet(<< >>, "1", [status |-> 0, filled |-> 5, amount |-> 10])}
PriorPositions == {<< >>, MapSet(<< >>, "p1", [side |-> 1, size |-> 10, leverage |-> 250])}

InitBootstrap ==
    /\ InitClient
    /\ chain \in PriorOrders
    /\ clock = Cardinality(DOMAIN chain)
    /\ vault = [t \in Tokens |-> [free |-> 0, locked |-> 0, total |-> 0]]
    /\ margin \in PriorPositions

\* a fetch has returned: the values of its map ("done") or, from its catch, []
\* ("failed")
Settled(call) == call.pc \in {"done", "failed"}

\* leverage in basis points / 100, as <<whole, hundredths>>
Leverage(bp) == <<bp \div 100, bp % 100>>

\* the record fetchPositions builds from one position of getUserPositions
\* (lines 273-284)
FetchedPosition(id, raw) ==
    [id |-> id, side |-> PositionSideName(raw.side), size |-> FormatUnits(raw.size),
     leverage |-> Leverage(raw.leverage)]

\* the node answers getUserPositions with the margin contract's positions
FetchPositionsRead ==
    /\ fp.pc = "reading"
    /\ fp' = [fp EXCEPT !.pc = "resolving", !.snap = margin]
    /\ UNCHANGED <<ul, orphans, held, cx, ws, timers, network, wallet, markets, orders, balances, positions,
                   chain, clock, wire, co, cn, fo, top, vault, fb, boot, fm, margin>>

\* FetchPositionsFail without the catch of fetchPositions: the rejection leaves
\* the call
FetchPositionsFail_Throws ==
    /\ fp.pc = "reading"
    /\ fp' = [fp EXCEPT !.pc = "threw"]
    /\ UNCHANGED <<ul, orphans, held, cx, ws, timers, network, wallet, markets, orders, balances, positions,
                   chain, clock, wire, co, cn, fo, top, vault, fb, boot, fm, margin>>

\* getAddress or getUserPositions rejects: the catch returns []
FetchPositionsFail ==
    /\ fp.pc = "reading"
    /\ fp' = [fp EXCEPT !.pc = "failed"]
    /\ UNCHANGED <<ul, orphans, held, cx, ws, timers, network, wallet, markets, orders, balances, positions,
                   chain, clock, wire, co, cn, fo, top, vault, fb, boot, fm, margin>>

\* the answer arrives: every position in it is set under its id
FetchPositionsApply ==
    /\ fp.pc = "resolving"
    /\ positions' = [id \in (DOMAIN positions) \cup (DOMAIN fp.snap) |->
                       IF id \in DOMAIN fp.snap THEN FetchedPosition(id, fp.snap[id])
                       ELSE positions[id]]
    /\ fp' = [fp EXCEPT !.pc = "done", !.snap = << >>]
    /\ UNCHANGED <<ul, orphans, held, cx, ws, timers, network, wallet, markets, orders, balances, chain,
                   clock, wire, co, cn, fo, top, vault, fb, boot, fm, margin>>

\* Promise.all settles: fulfilled once the four fetches have returned, rejected as
\* soon as one of them throws, which the catch of initialize logs
InitializeReturn ==
    /\ boot.pc = "awaiting"
    /\ \/ Settled(fm) /\ Settled(fb) /\ Settled(fp) /\ Settled(fo)
       \/ "threw" \in {fm.pc, fb.pc, fp.pc, fo.pc}
    /\ boot' = [boot EXCEPT !.pc = "done"]
    /\ UNCHANGED <<ul, orphans, held, cx, ws, timers, network, wallet, markets, orders, balances, positions,
                   chain, clock, wire, co, cn, fo, top, vault, fb, fm, fp, margin>>

NextBootstrap ==
    \/ FetchMarketsRespond
    \/ FetchMarketsFail
    \/ FetchBalancesTokens
    \/ \E t \in Tokens : FetchBalanceRead(t)
    \/ \E t \in Tokens : FetchBalanceArrive(t)
    \/ \E t \in Tokens : FetchBalancesFail(t)
    \/ FetchBalancesReturn
    \/ FetchPositionsRead
    \/ FetchPositionsFail
    \/ FetchPositionsApply
    \/ FetchOpenOrdersRead
    \/ FetchOpenOrdersFail
    \/ FetchOpenOrdersApply
    \/ InitializeReturn

\* every request of the bootstrap is answered or fails in the end, and the event
\* loop runs the continuation of a settled promise
SpecBootstrap == InitBootstrap /\ [][NextBootstrap]_vars /\ WF_vars(NextBootstrap)

(* ------------------------------ positions ------------------------------ *)

\* a caller calls fetchPositions: without a wallet, and on solana, it returns at
\* once; on an EVM network it asks the margin contract for the user's positions
FetchPositionsCall ==
    /\ fp.pc \in Over
    /\ fp' = [IdleFetch EXCEPT !.pc = IF wallet /\ IsEVM THEN "reading" ELSE "done"]
    /\ fp' # fp
    /\ UNCHANGED <<ul, orphans, held, cx, ws, timers, network, wallet, markets, orders, balances,
                   positions, chain, clock, wire, co, cn, fo, top, vault, fb, boot, fm, margin>>

updatePosition(positionData) ==
    MapSet(positions, positionData.id,
           Spread(GetOrEmpty(positions, positionData.id), positionData))

\* ws.on('message') -> handleWebSocketMessage, case 'position_update'
HandlePositionUpdate(positionData) ==
    /\ positions' = updatePosition(positionData)
    /\ positions' # positions
    /\ UNCHANGED <<ul, orphans, held, bootVars, cx, ws, timers, network, wallet, markets, orders,
                   balances, chain, clock, wire, co, cn, fo, top, vault, fb>>

\* Math.round(newLeverage * 100), for a leverage of at most two decimals
LeverageBp(leverage) == leverage[1] * 100 + leverage[2]

\* updatePositionLeverage up to its first await: the wallet check and the call of
\* marginContract.updatePositionLeverage; on solana the placeholder returns success
\* at once
UpdatePositionLeverageCall(positionId, leverage) ==
    /\ ul.pc \in Over
    /\ LET call == [IdleLeverage EXCEPT !.positionId = positionId, !.leverage = leverage]
       IN  ul' = IF ~wallet
                 THEN [call EXCEPT !.pc = "failed", !.err = "Wallet not connected"]
                 ELSE IF IsEVM
                 THEN [call EXCEPT !.pc = "submitted"]
                 ELSE [call EXCEPT !.pc = "done"]
    /\ ul' # ul
    /\ UNCHANGED <<orphans, held, bootVars, cx, ws, timers, network, wallet, markets, orders,
                   balances, positions, chain, clock, wire, co, cn, fo, top, vault, fb>>

\* marginContract.updatePositionLeverage or tx.wait rejects (the contract reverts for
\* a position it does not hold, and any transaction can fail in transport)
UpdatePositionLeverageReject ==
    /\ ul.pc = "submitted"
    /\ ul' = [ul EXCEPT !.pc = "failed", !.err = "Failed to update leverage"]
    /\ UNCHANGED <<orphans, held, bootVars, cx, ws, timers, network, wallet, markets, orders,
                   balances, positions, chain, clock, wire, co, cn, fo, top, vault, fb>>

\* the transaction is mined: the margin contract's position has the new leverage,
\* in basis points
UpdatePositionLeverageMined ==
    /\ ul.pc = "submitted"
    /\ ul.positionId \in DOMAIN margin
    /\ margin' = [margin EXCEPT ![ul.positionId].leverage = LeverageBp(ul.leverage)]
    /\ ul' = [ul EXCEPT !.pc = "mined"]
    /\ UNCHANGED <<orphans, held, cx, ws, timers, network, wallet, markets, orders, balances,
                   positions, chain, clock, wire, co, cn, fo, top, vault, fb, boot, fm, fp>>

\* tx.wait has resolved: the cached position, when there is one, gets the leverage
\* the caller passed
UpdatePositionLeverageReturn ==
    /\ ul.pc = "mined"
    /\ positions' = IF ul.positionId \in DOMAIN positions
                    THEN MapSet(positions, ul.positionId,
                                Spread(positions[ul.positionId],
                                       [leverage |-> ul.leverage]))
                    ELSE positions
    /\ ul' = [ul EXCEPT !.pc = "done"]
    /\ UNCHANGED <<orphans, held, bootVars, cx, ws, timers, network, wallet, markets, orders,
                   balances, chain, clock, wire, co, cn, fo, top, vault, fb>>

NextPositions ==
    \/ FetchPositionsCall
    \/ FetchPositionsRead
    \/ FetchPositionsFail
    \/ FetchPositionsApply
    \/ \E positionData \in PositionUpdates : HandlePositionUpdate(positionData)
    \/ \E positionId \in PositionIds, leverage \in NewLeverages :
          UpdatePositionLeverageCall(positionId, leverage)
    \/ UpdatePositionLeverageReject
    \/ UpdatePositionLeverageMined
    \/ UpdatePositionLeverageReturn

SpecPositions == InitBootstrap /\ [][NextPositions]_vars

(* ---------------------------- the push channel ------------------------- *)

AuthEnvelope == [type |-> "auth"]
SubscribeEnvelope ==
    [type |-> "subscribe", channels |-> <<"orders", "positions", "balances", "markets">>]

\* authenticate(), as the 'open' handler calls it, on socket s: nothing unless the
\* socket is open; reading this.wallet.signMessage throws when no wallet is bound,
\* before anything is sent; else the auth and the subscribe envelope are sent
authenticate(s) ==
    IF s.readyState # "OPEN" THEN s
    ELSE IF ~wallet THEN s
    ELSE [s EXCEPT !.sent = s.sent \o <<AuthEnvelope, SubscribeEnvelope>>]

\* the channel's lifecycle state, read off the socket
Subscribed ==
    /\ ws.readyState = "OPEN"
    /\ Len(ws.sent) > 0
    /\ ws.sent[Len(ws.sent)] = SubscribeEnvelope

\* the push connections that are not closed
Connections == (IF ws.readyState = "CLOSED" THEN 0 ELSE 1) + orphans

\* the remote accepts the connection: ws.on('open') runs authenticate
SocketOpen ==
    /\ ws.readyState = "CONNECTING"
    /\ ws' = authenticate([ws EXCEPT !.readyState = "OPEN"])
    /\ UNCHANGED <<ul, orphans, held, bootVars, cx, timers, network, wallet, markets, orders, balances, positions, chain,
                   clock, wire, co, cn, fo, top, vault, fb>>

\* SocketError with a reconnect set by the 'error' handler as well
SocketError_Reconnects ==
    /\ ws.readyState \in {"CONNECTING", "OPEN"}
    /\ ws' = [ws EXCEPT !.readyState = "CLOSING"]
    /\ timers' = timers + 1
    /\ UNCHANGED <<ul, orphans, held, bootVars, cx, network, wallet, markets, orders, balances,
                   positions, chain, clock, wire, co, cn, fo, top, vault, fb>>

\* a transport error: ws.on('error') logs it; the socket is on its way to closed
SocketError ==
    /\ ws.readyState \in {"CONNECTING", "OPEN"}
    /\ ws' = [ws EXCEPT !.readyState = "CLOSING"]
    /\ UNCHANGED <<ul, orphans, held, bootVars, cx, timers, network, wallet, markets, orders, balances, positions, chain,
                   clock, wire, co, cn, fo, top, vault, fb>>

\* the socket closes (after an error, or closed by the remote): ws.on('close') sets
\* the reconnect timer; what was on its way on the connection is lost
SocketClose ==
    /\ ws.readyState \in {"CONNECTING", "OPEN", "CLOSING"}
    /\ ws' = [ws EXCEPT !.readyState = "CLOSED"]
    /\ timers' = timers + 1
    /\ wire' = {}
    /\ UNCHANGED <<ul, orphans, held, bootVars, cx, network, wallet, markets, orders, balances, positions, chain,
                   clock, co, cn, fo, top, vault, fb>>

\* a reconnect timer fires after its 3000 ms: connectWebsocket replaces this.ws,
\* closing nothing
ReconnectTimer ==
    /\ timers > 0
    /\ timers' = timers - 1
    /\ ws' = NewSocket
    /\ orphans' = IF ws.readyState = "CLOSED" THEN orphans ELSE orphans + 1
    /\ UNCHANGED <<ul, held, bootVars, cx, network, wallet, markets, orders, balances, positions, chain,
                   clock, wire, co, cn, fo, top, vault, fb>>

\* the feed sends a balance_update on the open connection
SendBalanceUpdate(t, fields) ==
    /\ ws.readyState = "OPEN"
    /\ EmitBalanceUpdate(t, fields)

\* ws.on('message') on the open socket: a balance_update is handed to
\* handleWebSocketMessage
ReceiveBalanceUpdate(m) ==
    /\ ws.readyState = "OPEN"
    /\ HandleBalanceUpdate(m)

NextChannel ==
    \/ SocketOpen
    \/ SocketError
    \/ SocketClose
    \/ ReconnectTimer
    \/ \E t \in MovingTokens, free \in 0 .. MaxBalance, locked \in 0 .. MaxBalance :
          VaultChange(t, free, locked)
    \/ \E t \in MovingTokens : SendBalanceUpdate(t, BalanceFields)
    \/ \E m \in wire : ReceiveBalanceUpdate(m)

SpecChannel == Init /\ [][NextChannel]_vars

\* a socket that had an error does close, the event loop fires a timer that is due,
\* and the remote, asked again and again, accepts a connection in the end
SpecChannelFair ==
    /\ SpecChannel
    /\ WF_vars(ws.readyState = "CLOSING" /\ SocketClose)
    /\ WF_vars(ReconnectTimer)
    /\ SF_vars(SocketOpen)

(* ------------------------------- markets ------------------------------- *)

updateMarket(marketData) ==
    MapSet(markets, Property(marketData, "symbol"),
           Spread(GetOrEmpty(markets, Property(marketData, "symbol")), marketData))

\* ws.on('message') -> handleWebSocketMessage, case 'market_update'
HandleMarketUpdate(marketData) ==
    /\ markets' = updateMarket(marketData)
    /\ markets' # markets
    /\ UNCHANGED <<ul, orphans, held, bootVars, cx, ws, timers, network, wallet, orders, balances,
                   positions, chain, clock, wire, co, cn, fo, top, vault, fb>>

NextMarkets ==
    \/ FetchMarketsCall
    \/ FetchMarketsRespond
    \/ FetchMarketsFail
    \/ \E marketData \in MarketUpdates : HandleMarketUpdate(marketData)

SpecMarkets == Init /\ [][NextMarkets]_vars

(* ---------------------------- code conversions ------------------------- *)

\* createOrder lines 375-386: the codes sent for the request's side, type and
\* timeInForce
EncodeOrderParams(side, type, timeInForce) ==
    /\ cx' = [op |-> "orderParams",
              params |-> [side |-> side, type |-> type, timeInForce |-> timeInForce],
              orderParams |-> [side |-> SideId(side),
                               orderType |-> getOrderTypeId(type),
                               timeInForce |-> getTimeInForceId(timeInForce)]]
    /\ cx' # cx
    /\ UNCHANGED <<ul, orphans, held, bootVars, ws, timers, network, wallet, markets, orders, balances, positions, chain, clock,
                   wire, co, cn, fo, top, vault, fb>>

\* fetchOpenOrders lines 314-324: the names stored for an order's raw codes
DecodeOrder(side, orderType, status) ==
    /\ cx' = [op |-> "order",
              raw |-> [side |-> side, orderType |-> orderType, status |-> status],
              order |-> [side |-> OrderSideName(side),
                         type |-> getOrderTypeName(orderType),
                         status |-> getOrderStatusName(status)]]
    /\ cx' # cx
    /\ UNCHANGED <<ul, orphans, held, bootVars, ws, timers, network, wallet, markets, orders, balances, positions, chain, clock,
                   wire, co, cn, fo, top, vault, fb>>

\* fetchPositions lines 273-284: the name stored for a position's raw side
DecodePosition(side) ==
    /\ cx' = [op |-> "position", raw |-> [side |-> side],
              position |-> [side |-> PositionSideName(side)]]
    /\ cx' # cx
    /\ UNCHANGED <<ul, orphans, held, bootVars, ws, timers, network, wallet, markets, orders, balances, positions, chain, clock,
                   wire, co, cn, fo, top, vault, fb>>

NextCodes ==
    \/ \E side \in SideNames, type \in OrderTypeNames, tif \in TimeInForceNames :
          EncodeOrderParams(side, type, tif)
    \/ \E side \in RawCodes, orderType \in RawCodes, status \in RawCodes :
          DecodeOrder(side, orderType, status)
    \/ \E side \in RawCodes : DecodePosition(side)

SpecCodes == Init /\ [][NextCodes]_vars

(* ------------------------------- claims -------------------------------- *)

TerminalStatuses == {"filled", "canceled", "expired", "rejected"}

\* C1: for every order key, the stored record equals the update of highest sequence
\* marker applied to that key so far (confirmation over push on a tie), whatever
\* the order in which the updates were applied.
C1_HighestSequenceWins ==
    \A key \in DOMAIN top :
        /\ key \in DOMAIN orders
        /\ orders[key].status = top[key].status
        /\ orders[key].filled = top[key].filled

\* C2: once createOrder has confirmed an order and a later push has set it to
\* 'filled', receiving an order_update of an older sequence marker for that id
\* leaves the stored order as it is.
C2_StaleUpdateRejected ==
    [][\A m \in wire :
          (/\ wire' = wire \ {m}
           /\ co.pc = "done" /\ co.orderId = m.data.id
           /\ m.data.id \in DOMAIN orders
           /\ orders[m.data.id].status = "filled"
           /\ top[m.data.id].src = "push"
           /\ top[m.data.id].seq > co.seq
           /\ m.seq < top[m.data.id].seq)
          => orders'[m.data.id] = orders[m.data.id]]_vars

\* C3: a stored order whose status is terminal keeps that status in every later
\* state, whichever operation runs.
C3_TerminalStatusIsFinal ==
    [][\A key \in DOMAIN orders :
          orders[key].status \in TerminalStatuses
          => /\ key \in DOMAIN orders'
             /\ orders'[key].status = orders[key].status]_vars

\* 0 <= filled, and filled <= amount when the record has an amount
FilledInRange(order) ==
    /\ DecValue(order.filled) >= 0
    /\ "amount" \in DOMAIN order => DecValue(order.filled) <= DecValue(order.amount)

\* C4: every stored order has 0 <= filled <= amount, and the filled value stored
\* under an order id never decreases from one state to the next.
C4_FilledBoundedAndMonotonic ==
    [][\A key \in DOMAIN orders' :
          /\ FilledInRange(orders'[key])
          /\ key \in DOMAIN orders
             => DecValue(orders'[key].filled) >= DecValue(orders[key].filled)]_vars

\* C5: every stored balance that has its three fields satisfies
\* total = free + locked, after a fetch and after a push balance_update alike.
C5_TotalIsFreePlusLocked ==
    \A t \in DOMAIN balances :
        BalanceFields \subseteq DOMAIN balances[t]
        => DecValue(balances[t].total)
             = DecValue(balances[t].free) + DecValue(balances[t].locked)

\* no call is running and every order_update the feed emitted has been received
Quiescent == co.pc \in Over /\ cn.pc \in Over /\ fo.pc \in Over /\ wire = {}

\* C6: when nothing is in flight, the orders map holds exactly one record per order
\* submitted to the exchange: none lost, none twice.
C6_OneRecordPerOrder ==
    Quiescent => Cardinality(DOMAIN orders) = Cardinality(DOMAIN chain)

\* C7: the step in which createOrder returns with the order id X read from the
\* confirmation leaves, under X, an order of status 'open' and filled '0', and no
\* record under the request's clientOrderId.
C7_CreateOrderStoresOpenOrder ==
    [][(co.pc = "receipt" /\ co'.pc = "done" /\ co'.orderId # "pending")
       => /\ co'.orderId = co.chainId
          /\ co'.orderId \in DOMAIN orders'
          /\ orders'[co'.orderId].id = co'.orderId
          /\ orders'[co'.orderId].status = "open"
          /\ orders'[co'.orderId].filled = <<0, 0>>
          /\ co'.clientOrderId \notin DOMAIN orders']_vars

\* createOrder has just returned an order whose id came from the confirmation
C7_Witness ==
    /\ co.pc = "done"
    /\ co.chainId # ""
    /\ co.orderId = co.chainId
    /\ co.orderId \in DOMAIN orders
    /\ orders[co.orderId] = NewOrder(co.orderId, co.amount)

\* the chain submission of the createOrder call failed
SubmissionFailed ==
    /\ co.pc = "failed"
    /\ co.err = "OrderSubmissionFailed"
    /\ co.reason \in {"transaction failed", "receipt lookup failed"}

\* C8 as claimed: after a failed chain submission the orders map holds no record of
\* that submission, neither under its clientOrderId nor under any other key.
C8_NoRecordAfterFailure ==
    SubmissionFailed
    => /\ co.clientOrderId \notin DOMAIN orders
       /\ co.chainId \notin DOMAIN orders

\* C8 as amended: a createOrder call whose chain submission fails surfaces an
\* order-submission failure and writes nothing itself: no step of the call other than
\* its successful return changes the orders map, and no record lies under its
\* clientOrderId when it fails.
C8_FailedCreateOrderWritesNothing ==
    [][(co' # co /\ co'.pc # "done")
       => /\ orders' = orders
          /\ (co.pc \in {"submitted", "receipt"} /\ co'.pc = "failed")
             => /\ co'.err = "OrderSubmissionFailed"
                /\ co'.clientOrderId \notin DOMAIN orders']_vars

\* the receipt lookup of a mined order failed, and the order is in the map all the
\* same, under its chain id, set by a push
C8_Witness ==
    /\ SubmissionFailed
    /\ co.reason = "receipt lookup failed"
    /\ co.chainId \in DOMAIN orders

\* C9: createOrder without a wallet fails with WalletNotConnected, and with a market
\* that is not in the markets map it fails with MarketNotFound, before any chain
\* operation, on every network.
C9_ValidationFailuresAreTyped ==
    /\ (co.pc # "idle" /\ ~wallet)
       => co.pc = "failed" /\ co.err = "WalletNotConnected"
    /\ (co.pc # "idle" /\ wallet /\ ~co.marketKnown)
       => co.pc = "failed" /\ co.err = "MarketNotFound"

\* C10: cancelOrder on an order the map already holds as 'canceled' issues no chain
\* cancel operation.
C10_SecondCancelIsNoOp ==
    cn.wasCanceled => ~cn.sent

\* C11: cancelOrder with an order id that is not in the orders map still issues the
\* chain cancel operation, and the step in which it returns after the confirmation
\* leaves a record under that id with status 'canceled'.
C11_CancelRecordsUnknownOrder ==
    [][/\ (cn.pc \in Over /\ cn'.pc \notin Over /\ cn'.orderId \notin DOMAIN orders)
          => cn'.sent
       /\ (cn.pc = "mined" /\ cn'.pc = "done")
          => /\ cn.orderId \in DOMAIN orders'
             /\ orders'[cn.orderId].status = "canceled"]_vars

\* C18: from the moment createOrder has passed validation until its call is over, the
\* orders map holds a record under the request's clientOrderId with status 'open'
\* and filled '0'.
C18_OptimisticRecordWhileInFlight ==
    co.pc \in {"submitted", "receipt"}
    => /\ co.clientOrderId \in DOMAIN orders
       /\ orders[co.clientOrderId].status = "open"
       /\ orders[co.clientOrderId].filled = <<0, 0>>

\* C19: every createOrder and cancelOrder call that awaits its confirmation is
\* eventually over, ending with AdapterTimeout when the confirmation does not arrive.
C19_WriteCallsComplete ==
    /\ (co.pc \in {"submitted", "receipt"}) ~> (co.pc \in Over)
    /\ (cn.pc \in {"submitted", "mined"}) ~> (cn.pc \in Over)

\* C16: for every order type name t of the table, the name of the code sent for t is
\* t again, and every timeInForce name is sent as a code that no other name is sent as.
C16_CodeTablesRoundTrip ==
    cx.op = "orderParams"
    => /\ getOrderTypeName(cx.orderParams.orderType) = cx.params.type
       /\ {n \in TimeInForceNames : getTimeInForceId(n) = cx.orderParams.timeInForce}
            = {cx.params.timeInForce}

\* C17: a raw code outside its table decodes to 'unknown': an order's side, type and
\* status, and a position's side.
C17_UnknownCodesDecodeToUnknown ==
    /\ cx.op = "order"
       => /\ cx.raw.side \notin {0, 1} => cx.order.side = "unknown"
          /\ cx.raw.orderType \notin 0 .. 4 => cx.order.type = "unknown"
          /\ cx.raw.status \notin 0 .. 4 => cx.order.status = "unknown"
    /\ cx.op = "position"
       => (cx.raw.side \notin {0, 1} => cx.position.side = "unknown")

\* C12: after every loss of the push connection the channel comes to connect again,
\* whatever the number of earlier attempts, and reaches Subscribed again when the
\* remote accepts the connection.
C12_ReconnectsAndResubscribes ==
    /\ (ws.readyState = "CLOSED") ~> (ws.readyState = "CONNECTING")
    /\ (ws.readyState = "CLOSED") ~> Subscribed

\* C13: a message received while the channel is not Subscribed changes none of the
\* four maps.
C13_MessagesBeforeSubscribedDropped ==
    [][~Subscribed
       => <<markets, orders, balances, positions>>'
            = <<markets, orders, balances, positions>>]_vars

\* C20: an open connection has had exactly the auth envelope and then the subscribe
\* envelope sent on it, and nothing is sent on a socket that has not opened.
C20_AuthThenSubscribeOnOpen ==
    /\ ws.readyState = "OPEN" => ws.sent = <<AuthEnvelope, SubscribeEnvelope>>
    /\ ws.readyState = "CONNECTING" => ws.sent = << >>
    /\ ws.sent \in {<< >>, <<AuthEnvelope, SubscribeEnvelope>>}

\* no fetch of the bootstrap and not initialize itself has thrown, and once
\* initialize has returned every fetch has returned, the successful ones having
\* populated their maps
BootstrapSafe ==
    /\ "threw" \notin {boot.pc, fm.pc, fb.pc, fp.pc, fo.pc}
    /\ boot.pc = "done"
       => /\ Settled(fm) /\ Settled(fb) /\ Settled(fp) /\ Settled(fo)
          /\ fm.pc = "done" => ListedMarkets \subseteq DOMAIN markets
          /\ (fb.pc = "done" /\ wallet /\ IsEVM) => Tokens \subseteq DOMAIN balances
          /\ (fp.pc = "done" /\ wallet /\ IsEVM)
             => \A id \in DOMAIN margin :
                   /\ id \in DOMAIN positions
                   /\ positions[id] = FetchedPosition(id, margin[id])
          /\ (fo.pc = "done" /\ wallet /\ IsEVM)
             => \A id \in DOMAIN chain :
                   /\ id \in DOMAIN orders
                   /\ orders[id] = FetchedOrder(id, chain[id])

\* C14: whichever of the four initial fetches fail, initialize returns without
\* throwing, no fetch throws (a failed one returns []), and every fetch that
\* succeeded has populated its map.
C14_BootstrapCompletes ==
    /\ []BootstrapSafe
    /\ <>(boot.pc = "done")

\* initialize has returned although the balances and the open orders fetch failed,
\* and the markets and the positions the other two fetched are in their maps
C14_Witness ==
    /\ boot.pc = "done"
    /\ fb.pc = "failed" /\ fo.pc = "failed"
    /\ fm.pc = "done" /\ ListedMarkets \subseteq DOMAIN markets
    /\ fp.pc = "done" /\ "p1" \in DOMAIN positions

\* C15: the record createOrder returned is never the object the map holds: an
\* assignment the caller makes to it leaves the orders map as it is, and the return
\* of cancelOrder leaves the caller's record as it is.
C15_ResultsAreCopies ==
    [][/\ ~held'.live
       /\ (\E status \in CallerStatuses : CallerMutates(status)) => orders' = orders
       /\ (cn.pc = "mined" /\ cn'.pc = "done") => held'.record = held.record]_vars

\* C21: a symbol that is a key of the markets map is a key in every later state, and
\* the record under a key carries that key as its symbol.
C21_MarketsNeverDeleted ==
    [][/\ \A sym \in DOMAIN markets : sym \in DOMAIN markets'
       /\ \A sym \in DOMAIN markets' : Property(markets'[sym], "symbol") = sym]_vars

\* a fetchMarkets has returned the listing, and the map still holds a market that
\* only a push had named, beside the listed one
C21_Witness ==
    /\ fm.pc = "done"
    /\ ListedMarkets \subseteq DOMAIN markets
    /\ \E sym \in DOMAIN markets : sym \notin ListedMarkets

\* C22: the connections that are not closed and the reconnect timers pending are
\* together at most one; the close of a connection sets exactly one timer, and a
\* timer that fires opens exactly one connection.
C22_OneConnectionOrOneTimer ==
    /\ [](Connections + timers <= 1)
    /\ [][/\ Connections' < Connections
             => Connections' = Connections - 1 /\ timers' = timers + 1
          /\ timers' < timers
             => timers' = timers - 1 /\ Connections' = Connections + 1
          /\ Connections' > Connections => timers' < timers
          /\ timers' > timers => Connections' < Connections]_vars

\* the connection has closed and its one reconnect is pending
C22_Witness ==
    /\ ws.readyState = "CLOSED"
    /\ Connections = 0
    /\ timers = 1

\* C23: a fetchBalances call that has failed has set no record of the balances map.
C23_FailedFetchAppliesNothing ==
    fb.pc = "failed" => fb.applied = {}

====
